---- MODULE Spec2Model ----
(***************************************************************************)
(* Model of resize_lv_textures_and_export.py: a batch driver (main) that   *)
(* runs process_model once per discovered .glb file, and the size          *)
(* computation resize_image applied to every image of the LV_ materials.   *)
(*                                                                         *)
(* The host application (bpy) is the environment: its operators may raise, *)
(* and the document an import produces is an input of the import step.     *)
(***************************************************************************)
EXTENDS Integers, Naturals, Sequences, FiniteSets, TLC

\* ------------------------------------------------------------------------
\* Bounds of the model
\* ------------------------------------------------------------------------
MaxFiles == 2      \* .glb files under the input directory
MaxRuns == 2       \* invocations of main on the same directories
MaxArgs == 3       \* length of sys.argv after the script name
MaxDim == 4        \* image widths and heights 0 .. MaxDim of SpecResize
MaxBound == 3      \* --max_size values 1 .. MaxBound of SpecResize

\* ------------------------------------------------------------------------
\* Python float arithmetic: IEEE-754 binary64, round to nearest even.
\* A positive finite float is [m |-> bits, e |-> exponent], bits a sequence
\* of MantBits binary digits, most significant first and equal to 1; its
\* value is (the integer written by m) * 2^e.
\* ------------------------------------------------------------------------
MantBits == 53
LimbBits == 14     \* digits multiplied at once, so that products stay small

Max(a, b) == IF a >= b THEN a ELSE b
Min(a, b) == IF a <= b THEN a ELSE b

RECURSIVE Pow2(_)
Pow2(k) ==
    IF k = 0 THEN 1
    ELSE IF k % 2 = 0 THEN LET h == Pow2(k \div 2) IN h * h
    ELSE 2 * Pow2(k - 1)

\* 2^k mod d
RECURSIVE Pow2Mod(_, _)
Pow2Mod(k, d) ==
    IF k = 0 THEN 1 % d
    ELSE IF k % 2 = 0 THEN LET h == Pow2Mod(k \div 2, d) IN (h * h) % d
    ELSE (2 * Pow2Mod(k - 1, d)) % d

\* largest k with b * 2^k <= a, for a >= b
RECURSIVE Log2Down(_, _)
Log2Down(a, b) == IF 2 * b > a THEN 0 ELSE 1 + Log2Down(a, 2 * b)

\* smallest k with a * 2^k >= b
RECURSIVE Log2Up(_, _)
Log2Up(a, b) == IF a >= b THEN 0 ELSE 1 + Log2Up(2 * a, b)

\* the remainder of long division of r / d (r < d) after i binary digits
DivRem(r, d, i) == (r * Pow2Mod(i, d)) % d

\* the i-th binary digit (i >= 1) after the point of r / d (r < d)
DivBit(r, d, i) == IF 2 * DivRem(r, d, i - 1) >= d THEN 1 ELSE 0

Last(s) == s[Len(s)]

\* the binary digits of v, most significant first, in the given width
BitsOf(v, width) == [i \in 1..width |-> (v \div Pow2(width - i)) % 2]

RECURSIVE BitLen(_)
BitLen(c) == IF c = 0 THEN 0 ELSE 1 + BitLen(c \div 2)

RECURSIVE FromBits(_)
FromBits(bits) ==
    IF bits = <<>> THEN 0
    ELSE IF Len(bits) = 1 THEN bits[1]
    ELSE LET h == Len(bits) \div 2
         IN  FromBits(SubSeq(bits, 1, h)) * Pow2(Len(bits) - h)
               + FromBits(SubSeq(bits, h + 1, Len(bits)))

\* round to nearest, ties to even: m holds the kept digits, guard the first
\* dropped digit, sticky whether any later dropped digit is 1
RoundNearestEven(m, e, guard, sticky) ==
    IF guard = 1 /\ (sticky \/ Last(m) = 1)
    THEN LET zeros == {i \in 1..Len(m) : m[i] = 0}
         IN  IF zeros = {}
             THEN [m |-> [i \in 1..Len(m) |-> IF i = 1 THEN 1 ELSE 0], e |-> e + 1]
             ELSE LET p == CHOOSE i \in zeros : \A j \in zeros : j <= i
                  IN  [m |-> [i \in 1..Len(m) |->
                                 IF i < p THEN m[i] ELSE IF i = p THEN 1 ELSE 0],
                       e |-> e]
    ELSE [m |-> m, e |-> e]

\* a / b for integers a, b >= 1 (Python true division, correctly rounded)
FloatDiv(a, b) ==
    LET up == a >= b
        k == IF up THEN Log2Down(a, b) ELSE Log2Up(a, b)
        n == IF up THEN a ELSE a * Pow2(k)
        d == IF up THEN b * Pow2(k) ELSE b
        r == n - d
    IN  RoundNearestEven([i \in 1..MantBits |-> IF i = 1 THEN 1 ELSE DivBit(r, d, i - 1)],
                         (IF up THEN k ELSE 0 - k) - (MantBits - 1),
                         DivBit(r, d, MantBits), DivRem(r, d, MantBits) # 0)

\* the exact product of the integer written by bits and n >= 1
RECURSIVE MulBits(_, _, _)
MulBits(bits, n, carry) ==
    IF bits = <<>> THEN BitsOf(carry, BitLen(carry))
    ELSE LET w == Min(LimbBits, Len(bits))
             t == FromBits(SubSeq(bits, Len(bits) - w + 1, Len(bits))) * n + carry
         IN  MulBits(SubSeq(bits, 1, Len(bits) - w), n, t \div Pow2(w))
               \o BitsOf(t % Pow2(w), w)

\* x * n for a float x and an integer n >= 1 (n converts to float exactly)
FloatMulInt(x, n) ==
    LET p == MulBits(x.m, n, 0)
        extra == Len(p) - MantBits
    IN  RoundNearestEven(SubSeq(p, 1, MantBits), x.e + extra,
                         IF extra >= 1 THEN p[MantBits + 1] ELSE 0,
                         \E i \in (MantBits + 2)..Len(p) : p[i] = 1)

\* int(x): truncation toward zero
FloatToInt(x) ==
    IF x.e >= 0 THEN FromBits(x.m) * Pow2(x.e)
    ELSE IF 0 - x.e >= Len(x.m) THEN 0
    ELSE FromBits(SubSeq(x.m, 1, Len(x.m) + x.e))

\* int((max_size / major) * minor); 0 / major is 0.0
ScaledMinor(max_size, major, minor) ==
    IF max_size = 0 THEN 0
    ELSE FloatToInt(FloatMulInt(FloatDiv(max_size, major), minor))

\* resize_image with the bound compared strictly
resize_image_strict(size, max_size) ==
    LET width == size[1]
        height == size[2]
    IN  IF width <= 0 \/ height <= 0 THEN [ret |-> FALSE, size |-> size]
        ELSE IF width < max_size /\ height < max_size
        THEN [ret |-> FALSE, size |-> size]
        ELSE IF width >= height
        THEN [ret |-> TRUE,
              size |-> <<max_size, Max(1, ScaledMinor(max_size, width, height))>>]
        ELSE [ret |-> TRUE,
              size |-> <<Max(1, ScaledMinor(max_size, height, width)), max_size>>]

\* resize_image on an image of the given size: the value returned and the
\* size the image has afterwards (img.scale sets it to the size asked for).
\* The images of a document are image objects with a size, so the test of
\* line 15 never returns.
resize_image(size, max_size) ==
    LET width == size[1]
        height == size[2]
    IN  IF width <= 0 \/ height <= 0 THEN [ret |-> FALSE, size |-> size]
        ELSE IF width <= max_size /\ height <= max_size
        THEN [ret |-> FALSE, size |-> size]
        ELSE IF width >= height
        THEN [ret |-> TRUE,
              size |-> <<max_size, Max(1, ScaledMinor(max_size, width, height))>>]
        ELSE [ret |-> TRUE,
              size |-> <<Max(1, ScaledMinor(max_size, height, width)), max_size>>]

\* ------------------------------------------------------------------------
\* Strings are sequences of characters
\* ------------------------------------------------------------------------
PrefixLV == <<"L", "V", "_">>
NameLVwood == <<"L", "V", "_", "w", "o", "o", "d">>
NameLowerLVwood == <<"l", "v", "_", "w", "o", "o", "d">>
NameOther == <<"O", "t", "h", "e", "r">>
NameLV == <<"L", "V">>
NameXLV == <<"x", "L", "V", "_">>
Names == {PrefixLV, NameLVwood, NameLowerLVwood, NameOther, NameLV, NameXLV}

Sep == <<"-", "-">>
FlagInput == <<"-", "-", "i", "n", "p", "u", "t">>
FlagOutput == <<"-", "-", "o", "u", "t", "p", "u", "t">>
FlagMaxSize == <<"-", "-", "m", "a", "x", "_", "s", "i", "z", "e">>
Flags == {FlagInput, FlagOutput, FlagMaxSize}
DigitChars == <<"0", "1", "2", "3", "4", "5", "6", "7", "8", "9">>
Numeral(n) == <<DigitChars[n + 1]>>       \* the decimal numeral of n in 0..9
TokDir == <<"d">>
Tokens == Flags \cup {Sep, Numeral(2), Numeral(0), TokDir}

\* a prefix test that ignores case
LowerOf(c) == IF c = "L" THEN "l" ELSE IF c = "V" THEN "v" ELSE IF c = "O" THEN "o" ELSE c
startswith_ignorecase(s, prefix) ==
    /\ Len(s) >= Len(prefix)
    /\ \A i \in 1..Len(prefix) : LowerOf(s[i]) = LowerOf(prefix[i])

\* str.startswith
startswith(s, prefix) ==
    Len(s) >= Len(prefix) /\ SubSeq(s, 1, Len(prefix)) = prefix

DigitValue(c) == (CHOOSE i \in 1..10 : DigitChars[i] = c) - 1
IsDigit(c) == \E i \in 1..10 : DigitChars[i] = c

RECURSIVE DecimalValue(_)
DecimalValue(s) ==
    IF s = <<>> THEN 0
    ELSE 10 * DecimalValue(SubSeq(s, 1, Len(s) - 1)) + DigitValue(Last(s))

\* int(s) for a string: an optional sign and decimal digits, else ValueError
PyInt(s) ==
    LET signed == s # <<>> /\ s[1] \in {"-", "+"}
        digits == IF signed THEN Tail(s) ELSE s
    IN  IF digits = <<>> \/ \E i \in 1..Len(digits) : ~IsDigit(digits[i])
        THEN [ok |-> FALSE, val |-> 0]
        ELSE [ok |-> TRUE,
              val |-> IF signed /\ s[1] = "-" THEN 0 - DecimalValue(digits)
                      ELSE DecimalValue(digits)]

\* ------------------------------------------------------------------------
\* parse_cli_args: the flags after the first "--" of sys.argv
\* ------------------------------------------------------------------------
RECURSIVE ParseTail(_, _, _)
ParseTail(tail, i, args) ==
    IF i > Len(tail) THEN [err |-> FALSE, args |-> args]
    ELSE IF tail[i] \in Flags
    THEN IF i + 1 > Len(tail) THEN [err |-> TRUE, args |-> args]
         ELSE ParseTail(tail, i + 2, (tail[i] :> tail[i + 1]) @@ args)
    ELSE ParseTail(tail, i + 1, args)

parse_cli_args(av) ==
    IF \A i \in 1..Len(av) : av[i] # Sep THEN [err |-> FALSE, args |-> <<>>]
    ELSE LET first == CHOOSE i \in 1..Len(av) :
                          av[i] = Sep /\ \A j \in 1..(i - 1) : av[j] # Sep
         IN  ParseTail(SubSeq(av, first + 1, Len(av)), 1, <<>>)

DefaultMaxSize == 512

\* a validation without the test for a non-positive value
MaxSizeRejectedNonNumeric(v) == ~PyInt(v).ok

\* main's validation of the value given to --max_size
MaxSizeRejected(v) == ~PyInt(v).ok \/ PyInt(v).val <= 0

\* ------------------------------------------------------------------------
\* Host documents.  A material is [name, use_nodes, has_tree, nodes], a node
\* [type, image] with image 0 for no image; the images of a document are
\* numbered 1 .. Len(size) and size[i] is <<width, height>>.
\* ------------------------------------------------------------------------
Tex(i) == [type |-> "TEX_IMAGE", image |-> i]
Bsdf == [type |-> "BSDF_PRINCIPLED", image |-> 0]
Mat(name, use_nodes, nodes) ==
    [name |-> name, use_nodes |-> use_nodes, has_tree |-> TRUE, nodes |-> nodes]
EmptyDoc == [mats |-> <<>>, size |-> <<>>]
NoFile == 0

ImageIds(d) == 1..Len(d.size)

get_images_from_material(mat) ==
    IF ~mat.use_nodes \/ ~mat.has_tree THEN {}
    ELSE {mat.nodes[j].image :
            j \in {i \in 1..Len(mat.nodes) :
                     mat.nodes[i].type = "TEX_IMAGE" /\ mat.nodes[i].image # 0}}

\* list.extend: every reference adds the image once more
ListExtend(coll, imgs) == [i \in DOMAIN coll |-> IF i \in imgs THEN coll[i] + 1 ELSE coll[i]]

\* The collection images_to_resize gives each image the number of times the
\* resize loop will meet it; set.update leaves an image already there alone.
SetUpdate(coll, imgs) == [i \in DOMAIN coll |-> IF i \in imgs THEN 1 ELSE coll[i]]

IsSelected(mat) == startswith(mat.name, PrefixLV)

RECURSIVE CollectFrom(_, _, _)
CollectFrom(mats, i, coll) ==
    IF i > Len(mats) THEN coll
    ELSE CollectFrom(mats, i + 1,
                     IF IsSelected(mats[i])
                     THEN SetUpdate(coll, get_images_from_material(mats[i]))
                     ELSE coll)

CollectImages(d) == CollectFrom(d.mats, 1, [i \in ImageIds(d) |-> 0])

\* ------------------------------------------------------------------------
\* Files.  A .glb file is named by the rank of its path relative to the input
\* directory in the order of sorted(); output_dir / rel mirrors that path.
\* ------------------------------------------------------------------------
Files == 1..MaxFiles

RECURSIVE SortedSeq(_)
SortedSeq(fs) ==
    IF fs = {} THEN <<>>
    ELSE LET least == CHOOSE f \in fs : \A g \in fs : f <= g
         IN  <<least>> \o SortedSeq(fs \ {least})

Absent == [exists |-> FALSE, by |-> 0, complete |-> FALSE]
PreExisting == [exists |-> TRUE, by |-> 0, complete |-> TRUE]
\* an export that writes somewhere else than the mirrored path
ExportedElsewhere(r) == Absent
\* the file a successful export of invocation r leaves at the mirrored path
Exported(r) == [exists |-> TRUE, by |-> r, complete |-> TRUE]
Partial(r) == [exists |-> TRUE, by |-> r, complete |-> FALSE]

NoSummary == [printed |-> FALSE, processed |-> 0, skipped |-> 0, failed |-> 0]

VARIABLES
    argv,              \* sys.argv after the script name
    inputDir,          \* [exists, files]: the input directory and its .glb files
    fileDoc,           \* the document each input file imports as
    outContent,        \* what lies at each mirrored output path
    outDirExists,      \* the output directory has been created
    run,               \* number of the current invocation of main
    pc,                \* position of the program
    fatal,             \* the exception that ended main, "" if none
    max_size,
    glb_files, idx,    \* the sorted list of main and the index of its loop
    processed, skipped, failed,
    prev,              \* the summary printed by the previous invocation
    doc, docFile,      \* the host document and the file it was imported from
    images_to_resize,
    attempts,          \* resize attempts made on each image in this pass
    result,            \* the line logged for each image in this pass
    resized_count,
    log,               \* warning and error lines of this invocation
    caught,            \* exceptions caught in this invocation
    visited            \* files named by "Skipping:" / "Processing:" lines

hostVars == <<doc, docFile, images_to_resize, attempts, result, resized_count>>
countVars == <<processed, skipped, failed>>
envVars == <<argv, inputDir, fileDoc>>
vars == <<argv, inputDir, fileDoc, outContent, outDirExists, run, pc, fatal,
          max_size, glb_files, idx, processed, skipped, failed, prev, doc,
          docFile, images_to_resize, attempts, result, resized_count, log,
          caught, visited>>

\* ------------------------------------------------------------------------
\* main, up to its loop (lines 131-176)
\* ------------------------------------------------------------------------
MainStart ==
    /\ pc = "main"
    /\ LET cli == parse_cli_args(argv)
           given == FlagMaxSize \in DOMAIN cli.args
       IN  IF cli.err
           THEN /\ pc' = "fatal"
                /\ fatal' = "missing_value"
                /\ UNCHANGED <<max_size, outDirExists, glb_files, idx, caught>>
           ELSE IF given /\ MaxSizeRejected(cli.args[FlagMaxSize])
           THEN \* caught at line 150 and raised again as the fatal error
                /\ pc' = "fatal"
                /\ fatal' = "invalid_max_size"
                /\ caught' = caught \cup {[site |-> "max_size", subject |-> NoFile]}
                /\ UNCHANGED <<max_size, outDirExists, glb_files, idx>>
           ELSE /\ max_size' = IF given THEN PyInt(cli.args[FlagMaxSize]).val
                               ELSE DefaultMaxSize
                /\ outDirExists' = TRUE
                /\ caught' = caught
                /\ IF ~inputDir.exists
                   THEN /\ pc' = "fatal"
                        /\ fatal' = "input_not_found"
                        /\ UNCHANGED <<glb_files, idx>>
                   ELSE /\ glb_files' = SortedSeq(inputDir.files)
                        /\ idx' = 1
                        /\ pc' = IF inputDir.files = {} THEN "nofiles" ELSE "loop"
                        /\ fatal' = fatal
    /\ UNCHANGED <<envVars, outContent, run, countVars, prev, hostVars, log,
                   visited>>

\* an existence test that never finds the output
OutputNeverExists(file) == FALSE

\* out_file.exists()
OutputExists(file) == outContent[file].exists

\* no except clause: the exception ends main
FileFailedUncaught(file) ==
    /\ pc' = "fatal"
    /\ fatal' = "uncaught"
    /\ UNCHANGED <<processed, skipped, failed, log, caught, idx>>

\* an except clause that counts the failure and logs nothing
FileFailedSilent(file) ==
    /\ failed' = failed + 1
    /\ caught' = caught \cup {[site |-> "main", subject |-> file]}
    /\ idx' = idx + 1
    /\ pc' = "loop"
    /\ UNCHANGED <<processed, skipped, fatal, log>>

\* the except clause of main's loop: count, log, go on with the next file
FileFailed(file) ==
    /\ failed' = failed + 1
    /\ log' = log \cup {[kind |-> "error", subject |-> file]}
    /\ caught' = caught \cup {[site |-> "main", subject |-> file]}
    /\ idx' = idx + 1
    /\ pc' = "loop"
    /\ UNCHANGED <<processed, skipped, fatal>>

\* one iteration of main's loop up to the call of process_model
LoopStep ==
    /\ pc = "loop"
    /\ idx <= Len(glb_files)
    /\ LET file == glb_files[idx]
       IN  /\ visited' = Append(visited, file)
           /\ IF OutputExists(file)
              THEN /\ skipped' = skipped + 1
                   /\ idx' = idx + 1
                   /\ pc' = "loop"
              ELSE /\ pc' = "reset"
                   /\ UNCHANGED <<skipped, idx>>
    /\ UNCHANGED <<envVars, outContent, outDirExists, run, fatal, max_size,
                   glb_files, processed, failed, prev, hostVars, log, caught>>

\* process_model: factory reset, and the attempt to switch global undo off
PMReset ==
    /\ pc = "reset"
    /\ \E resetRaises \in BOOLEAN, undoRaises \in BOOLEAN :
         IF resetRaises
         THEN /\ FileFailed(glb_files[idx])
              /\ UNCHANGED hostVars
         ELSE /\ doc' = EmptyDoc
              /\ docFile' = NoFile
              /\ images_to_resize' = <<>>
              /\ attempts' = <<>>
              /\ result' = <<>>
              /\ resized_count' = 0
              /\ caught' = IF undoRaises
                           THEN caught \cup {[site |-> "undo", subject |-> glb_files[idx]]}
                           ELSE caught
              /\ pc' = "import"
              /\ UNCHANGED <<countVars, idx, log, fatal>>
    /\ UNCHANGED <<envVars, outContent, outDirExists, run, max_size, glb_files,
                   prev, visited>>

\* process_model: import, and the collection of the images to resize
PMImport ==
    /\ pc = "import"
    /\ \E importRaises \in BOOLEAN :
         IF importRaises
         THEN /\ FileFailed(glb_files[idx])
              /\ UNCHANGED hostVars
         ELSE LET d == fileDoc[glb_files[idx]]
              IN  /\ doc' = d
                  /\ docFile' = glb_files[idx]
                  /\ images_to_resize' = CollectImages(d)
                  /\ attempts' = [i \in ImageIds(d) |-> 0]
                  /\ result' = [i \in ImageIds(d) |-> "none"]
                  /\ resized_count' = 0
                  /\ pc' = "resize"
                  /\ UNCHANGED <<countVars, idx, log, caught, fatal>>
    /\ UNCHANGED <<envVars, outContent, outDirExists, run, max_size, glb_files,
                   prev, visited>>

\* the images the resize loop has yet to meet
Pending == {i \in DOMAIN images_to_resize : attempts[i] < images_to_resize[i]}

\* the resize loop without its try/except: a raising image fails the file
PMResizeUncaught ==
    /\ pc = "resize"
    /\ \E img \in Pending, raises \in BOOLEAN :
         /\ attempts' = [attempts EXCEPT ![img] = @ + 1]
         /\ IF raises
            THEN /\ FileFailed(glb_files[idx])
                 /\ UNCHANGED <<doc, result, resized_count>>
            ELSE LET r == resize_image(doc.size[img], max_size)
                 IN  /\ doc' = [doc EXCEPT !.size[img] = r.size]
                     /\ result' = [result EXCEPT
                                     ![img] = IF r.ret THEN "resized" ELSE "kept"]
                     /\ resized_count' = IF r.ret THEN resized_count + 1
                                         ELSE resized_count
                     /\ UNCHANGED <<log, caught, pc, fatal, idx, countVars>>
    /\ UNCHANGED <<envVars, outContent, outDirExists, run, max_size,
                   glb_files, prev, docFile, images_to_resize, visited>>

\* process_model: one iteration of the resize loop, in the set's own order
PMResize ==
    /\ pc = "resize"
    /\ \E img \in Pending, raises \in BOOLEAN :
         /\ attempts' = [attempts EXCEPT ![img] = @ + 1]
         /\ IF raises
            THEN /\ result' = [result EXCEPT ![img] = "warning"]
                 /\ log' = log \cup {[kind |-> "warning", subject |-> img]}
                 /\ caught' = caught \cup {[site |-> "resize", subject |-> img]}
                 /\ UNCHANGED <<doc, resized_count>>
            ELSE LET r == resize_image(doc.size[img], max_size)
                 IN  /\ doc' = [doc EXCEPT !.size[img] = r.size]
                     /\ result' = [result EXCEPT
                                     ![img] = IF r.ret THEN "resized" ELSE "kept"]
                     /\ resized_count' = IF r.ret THEN resized_count + 1
                                         ELSE resized_count
                     /\ UNCHANGED <<log, caught>>
    /\ UNCHANGED <<envVars, outContent, outDirExists, run, pc, fatal, max_size,
                   glb_files, idx, countVars, prev, docFile, images_to_resize,
                   visited>>

\* process_model: mkdir and export, then back in main's loop
PMExport ==
    /\ pc = "resize"
    /\ Pending = {}
    /\ LET file == glb_files[idx]
       IN  \E outcome \in {"exported", "raised", "raised_partial"} :
             IF outcome = "exported"
             THEN /\ outContent' = [outContent EXCEPT ![file] = Exported(run)]
                  /\ processed' = processed + 1
                  /\ idx' = idx + 1
                  /\ pc' = "loop"
                  /\ UNCHANGED <<skipped, failed, log, caught, fatal>>
             ELSE /\ outContent' = IF outcome = "raised_partial"
                                   THEN [outContent EXCEPT ![file] = Partial(run)]
                                   ELSE outContent
                  /\ FileFailed(file)
    /\ UNCHANGED <<envVars, outDirExists, run, max_size, glb_files, prev,
                   hostVars, visited>>

\* the summary after the loop
Summary ==
    /\ pc = "loop"
    /\ idx > Len(glb_files)
    /\ pc' = "done"
    /\ UNCHANGED <<envVars, outContent, outDirExists, run, fatal, max_size,
                   glb_files, idx, countVars, prev, hostVars, log, caught,
                   visited>>

\* the process has ended; the script is run again on the same directories
Rerun ==
    /\ pc \in {"done", "nofiles", "fatal"}
    /\ run < MaxRuns
    /\ run' = run + 1
    /\ prev' = IF pc = "done"
               THEN [printed |-> TRUE, processed |-> processed,
                     skipped |-> skipped, failed |-> failed]
               ELSE NoSummary
    /\ pc' = "main"
    /\ fatal' = ""
    /\ max_size' = DefaultMaxSize
    /\ glb_files' = <<>>
    /\ idx' = 0
    /\ processed' = 0 /\ skipped' = 0 /\ failed' = 0
    /\ doc' = EmptyDoc /\ docFile' = NoFile
    /\ images_to_resize' = <<>> /\ attempts' = <<>> /\ result' = <<>>
    /\ resized_count' = 0
    /\ log' = {} /\ caught' = {} /\ visited' = <<>>
    /\ UNCHANGED <<envVars, outContent, outDirExists>>

Next ==
    \/ MainStart
    \/ LoopStep
    \/ PMReset
    \/ PMImport
    \/ PMResize
    \/ PMExport
    \/ Summary
    \/ Rerun

\* ------------------------------------------------------------------------
\* Initial states: a fresh process, given a command line and a file system
\* ------------------------------------------------------------------------
Fresh ==
    /\ outDirExists = \E f \in Files : outContent[f].exists
    /\ run = 1
    /\ pc = "main"
    /\ fatal = ""
    /\ max_size = DefaultMaxSize
    /\ glb_files = <<>>
    /\ idx = 0
    /\ processed = 0 /\ skipped = 0 /\ failed = 0
    /\ prev = NoSummary
    /\ doc = EmptyDoc /\ docFile = NoFile
    /\ images_to_resize = <<>> /\ attempts = <<>> /\ result = <<>>
    /\ resized_count = 0
    /\ log = {} /\ caught = {} /\ visited = <<>>

ArgvMax2 == <<Sep, FlagMaxSize, Numeral(2)>>

\* A document with one LV_ material and one other material, and a document
\* whose two LV_ materials share an image
DocBody == [mats |-> <<Mat(NameLVwood, TRUE, <<Bsdf, Tex(1)>>),
                       Mat(NameOther, TRUE, <<Tex(2)>>)>>,
            size |-> <<<<4, 2>>, <<3, 3>>>>]
DocShared == [mats |-> <<Mat(NameLVwood, TRUE, <<Tex(1), Tex(2)>>),
                         Mat(PrefixLV, TRUE, <<Tex(1)>>)>>,
              size |-> <<<<1, 4>>, <<2, 1>>>>]
BatchDocs == {DocShared}

\* The batch: up to MaxFiles files, some with their output already there
Init ==
    /\ argv = ArgvMax2
    /\ \E fs \in SUBSET Files :
         /\ inputDir = [exists |-> TRUE, files |-> fs]
         /\ fileDoc \in [Files -> BatchDocs \cup {EmptyDoc}]
         /\ \A f \in Files : fileDoc[f] = EmptyDoc <=> f \notin fs
         /\ outContent \in [Files -> {Absent, PreExisting}]
         /\ \A f \in Files : f \notin fs => outContent[f] = Absent
    /\ Fresh

Spec == Init /\ [][Next]_vars

\* The file system with one input file that imports as d
OneFile(d, outs) ==
    /\ inputDir = [exists |-> TRUE, files |-> {1}]
    /\ fileDoc = [f \in Files |-> IF f = 1 THEN d ELSE EmptyDoc]
    /\ outContent \in [Files -> outs]
    /\ \A f \in Files : f # 1 => outContent[f] = Absent

\* Sizes: one image of every size on an LV_ material, under every bound
BigDims == {47, 49}
Dims == (0..MaxDim) \cup BigDims
InitResize ==
    /\ \E m \in 1..MaxBound : argv = <<Sep, FlagMaxSize, Numeral(m)>>
    /\ \E w \in Dims, h \in Dims :
         OneFile([mats |-> <<Mat(PrefixLV, TRUE, <<Tex(1)>>)>>,
                  size |-> <<<<w, h>>>>], {Absent})
    /\ Fresh

SpecResize == InitResize /\ [][Next]_vars

\* One pass over every document of two materials and two oversized images
NodeLists == {<<Tex(1)>>, <<Tex(1), Tex(1)>>, <<Bsdf, Tex(2)>>,
              <<Tex(0), Tex(2), Tex(1)>>}
PassDocs ==
    {[mats |-> <<[name |-> n1, use_nodes |-> u1, has_tree |-> t1,
                  nodes |-> IF t1 THEN l1 ELSE <<>>],
                 Mat(n2, TRUE, l2)>>,
      size |-> <<<<4, 2>>, <<1, 3>>>>] :
        n1 \in Names, u1 \in BOOLEAN, t1 \in BOOLEAN, l1 \in NodeLists,
        n2 \in Names, l2 \in NodeLists}
InitPass ==
    /\ argv = ArgvMax2
    /\ \E d \in PassDocs : OneFile(d, {Absent})
    /\ Fresh

SpecPass == InitPass /\ [][Next]_vars

\* Every command line of up to MaxArgs tokens, with and without an input
\* directory
RECURSIVE SeqsUpTo(_, _)
SeqsUpTo(S, n) ==
    IF n = 0 THEN {<<>>}
    ELSE LET shorter == SeqsUpTo(S, n - 1)
         IN  shorter \cup {Append(q, t) : q \in shorter, t \in S}
InitCli ==
    /\ argv \in SeqsUpTo(Tokens, MaxArgs)
    /\ \/ /\ inputDir = [exists |-> FALSE, files |-> {}]
          /\ fileDoc = [f \in Files |-> EmptyDoc]
          /\ outContent \in [Files -> {Absent, PreExisting}]
       \/ /\ inputDir = [exists |-> TRUE, files |-> {}]
          /\ fileDoc = [f \in Files |-> EmptyDoc]
          /\ outContent = [f \in Files |-> Absent]
       \/ OneFile(DocBody, {Absent, PreExisting})
    /\ Fresh

SpecCli == InitCli /\ [][Next]_vars

\* ------------------------------------------------------------------------
\* Properties
\* ------------------------------------------------------------------------
\* the size image i had when the current document was imported
ImportedSize(i) == fileDoc[docFile].size[i]

\* material mat has an image-sampling node bound to image i
References(mat, i) ==
    \E j \in 1..Len(mat.nodes) :
        mat.nodes[j].type = "TEX_IMAGE" /\ mat.nodes[j].image = i

\* material mat samples image i: its node graph is in use and has such a node
Samples(mat, i) == mat.use_nodes /\ mat.has_tree /\ References(mat, i)

\* the names of Names that begin with "LV_", written out
SelectedNames == {NameLVwood, PrefixLV}

\* C1: resize_image returns True (and the image is resized) exactly when
\* w > 0, h > 0 and (w > M or h > M); otherwise it returns False and the
\* image keeps its width and height.
C1_ResizeIff ==
    \A i \in DOMAIN result :
        result[i] \in {"resized", "kept"} =>
            LET w == ImportedSize(i)[1]
                h == ImportedSize(i)[2]
            IN  /\ result[i] = "resized" <=>
                     (w > 0 /\ h > 0 /\ (w > max_size \/ h > max_size))
                /\ result[i] = "resized" => doc.size[i] # ImportedSize(i)
                /\ result[i] = "kept" => doc.size[i] = ImportedSize(i)

\* one side within the bound, the other above it: resized
C1_Witness ==
    /\ pc = "done"
    /\ result = <<"resized">>
    /\ ImportedSize(1)[1] <= max_size
    /\ ImportedSize(1)[2] > max_size

\* the size the claim gives: the larger axis (the width on a tie) becomes M,
\* the smaller one max(1, floor(M * smaller / larger))
ClaimedSize(size, m) ==
    IF size[1] >= size[2]
    THEN <<m, Max(1, (m * size[2]) \div size[1])>>
    ELSE <<Max(1, (m * size[1]) \div size[2]), m>>

\* C2: whenever resize_image triggers, the larger axis becomes exactly M and
\* the smaller axis max(1, floor(M * smaller / larger)).
C2_ExactFloor ==
    \A i \in DOMAIN result :
        result[i] = "resized" => doc.size[i] = ClaimedSize(ImportedSize(i), max_size)

\* C3 as claimed: whatever the first run did, a second run on the same
\* directories processes no file and fails on none.
C3_SecondRunAllSkipped ==
    (pc = "done" /\ prev.printed) => (processed = 0 /\ failed = 0)

\* C3 as amended: the second run skips every file the first run processed or
\* skipped, and attempts at most the files the first run failed on; when the
\* first run had no failure it skips every file.
C3_SecondRunOnlyRetries ==
    (pc = "done" /\ prev.printed) =>
        /\ processed + failed <= prev.failed
        /\ prev.failed = 0 =>
             (processed = 0 /\ failed = 0 /\ skipped = Len(glb_files))

C3_Witness ==
    /\ pc = "done"
    /\ prev.printed /\ prev.processed >= 1 /\ prev.failed = 0
    /\ skipped >= 2 /\ processed = 0 /\ failed = 0

\* C4: an output path that holds a file is never written again, and a file
\* whose output exists when the loop reaches it is skipped: the skipped
\* counter goes up by one and the host document, the other counters and the
\* output files stay as they are (no reset, import, resize or export).
C4_NoOverwrite ==
    [][ /\ \A f \in Files : outContent[f].exists => outContent'[f] = outContent[f]
        /\ (pc = "loop" /\ idx <= Len(glb_files) /\ outContent[glb_files[idx]].exists)
             => /\ skipped' = skipped + 1
                /\ processed' = processed /\ failed' = failed
                /\ pc' = "loop" /\ idx' = idx + 1
                /\ hostVars' = hostVars
                /\ outContent' = outContent ]_vars

\* a run that skipped a file whose output was there before it, and processed
\* another one
C4_Witness ==
    /\ pc = "done"
    /\ skipped = 1 /\ processed = 1
    /\ \E f \in Files : outContent[f] = PreExisting /\ f \in inputDir.files

\* C5: within one pass every image gets at most one resize attempt, and an
\* image referenced by selected materials, by however many of them and of
\* their nodes, has had exactly one when the resize loop is over.
C5_AtMostOneAttempt ==
    /\ \A i \in DOMAIN attempts : attempts[i] <= 1
    /\ (docFile # NoFile /\ (pc # "resize" \/ Pending = {})) =>
          \A i \in ImageIds(doc) :
              (\E k \in 1..Len(doc.mats) :
                   doc.mats[k].name \in SelectedNames /\ Samples(doc.mats[k], i))
                 => attempts[i] = 1

\* two selected materials reference image 1, one of them through two nodes
C5_Witness ==
    /\ pc = "done"
    /\ Len(doc.mats) = 2
    /\ \A k \in 1..2 : doc.mats[k].name \in SelectedNames /\ doc.mats[k].use_nodes
    /\ doc.mats[1].nodes = <<Tex(1), Tex(1)>>
    /\ References(doc.mats[2], 1)
    /\ attempts[1] = 1 /\ result[1] = "resized"

\* selection is by the case-sensitive prefix "LV_"
SelectionByPrefix ==
    \A k \in 1..Len(doc.mats) :
        IsSelected(doc.mats[k]) <=> doc.mats[k].name \in SelectedNames

\* C6 as claimed: selection is by the exact prefix "LV_", and every texture
\* referenced by a non-selected material keeps the size it was imported with.
C6_NonSelectedUntouched ==
    /\ SelectionByPrefix
    /\ \A i \in ImageIds(doc) :
          (\E k \in 1..Len(doc.mats) :
               doc.mats[k].name \notin SelectedNames /\ Samples(doc.mats[k], i))
            => doc.size[i] = ImportedSize(i)

\* C6 as amended: selection is by the exact prefix "LV_", and every texture
\* that no selected material samples keeps the size it was imported with
\* (a texture shared with a selected material is resized).
C6_OnlySelectedResized ==
    /\ SelectionByPrefix
    /\ \A i \in ImageIds(doc) :
          (\A k \in 1..Len(doc.mats) :
               doc.mats[k].name \in SelectedNames => ~Samples(doc.mats[k], i))
            => doc.size[i] = ImportedSize(i)

\* "lv_wood" holds the oversized image 2 and is left alone, while image 1 of
\* "LV_" is resized
C6_Witness ==
    /\ pc = "done"
    /\ Len(doc.mats) = 2
    /\ doc.mats[1].name = NameLowerLVwood
    /\ Samples(doc.mats[1], 2)
    /\ doc.mats[2].name = PrefixLV
    /\ result[1] = "resized"
    /\ doc.size[2] = ImportedSize(2) /\ ImportedSize(2)[2] > max_size

InPass == pc \in {"reset", "import", "resize"}

\* C7: a failing file never stops the batch: the files are visited in sorted
\* order, each adds one to exactly one counter, nothing but a configuration
\* error ends main early, and at the summary the counters add up to the
\* number of files.
C7_BatchNeverStops ==
    /\ pc \in {"loop", "done"} \cup {"reset", "import", "resize"} =>
          /\ {glb_files[i] : i \in 1..Len(glb_files)} = inputDir.files
          /\ \A i \in 1..Len(glb_files), j \in 1..Len(glb_files) :
                i < j => glb_files[i] < glb_files[j]
          /\ visited = SubSeq(glb_files, 1, IF InPass THEN idx ELSE idx - 1)
          /\ processed + skipped + failed = idx - 1
          /\ Cardinality({[kind |-> "error", subject |-> f] : f \in Files} \cap log)
               = failed
    /\ pc = "done" =>
          /\ visited = glb_files
          /\ processed + skipped + failed = Len(glb_files)
    /\ pc = "fatal" => visited = <<>>
    /\ pc = "loop" => idx \in 1..(Len(glb_files) + 1)
    /\ InPass => idx \in 1..Len(glb_files)

\* the first file failed and the second was still processed
C7_Witness ==
    /\ pc = "done"
    /\ Len(glb_files) = 2
    /\ [kind |-> "error", subject |-> glb_files[1]] \in log
    /\ outContent[glb_files[2]] = Exported(run)
    /\ failed = 1 /\ processed = 1

\* the command line or the input directory is a fatal configuration error
ConfigError ==
    LET cli == parse_cli_args(argv)
    IN  \/ cli.err
        \/ /\ FlagMaxSize \in DOMAIN cli.args
           /\ ~(PyInt(cli.args[FlagMaxSize]).ok /\ PyInt(cli.args[FlagMaxSize]).val > 0)
        \/ ~inputDir.exists

\* C8: a run with a fatal configuration error ends before any file is
\* touched: nothing is visited, reset, imported, resized or exported, no
\* output file is written, no counter moves and no summary is printed.
C8_FatalBeforeAnyFile ==
    (pc # "main" /\ ConfigError) =>
        /\ pc = "fatal"
        /\ visited = <<>> /\ glb_files = <<>>
        /\ processed = 0 /\ skipped = 0 /\ failed = 0
        /\ doc = EmptyDoc /\ docFile = NoFile /\ attempts = <<>>
        /\ \A f \in Files : outContent[f].by # run
        /\ log = {}

\* an input file is waiting, and --max_size 0 ends the run
C8_Witness ==
    /\ pc = "fatal" /\ fatal = "invalid_max_size"
    /\ argv = <<Sep, FlagMaxSize, Numeral(0)>>
    /\ inputDir.files = {1} /\ outContent[1] = Absent

\* C9: an image whose resize raises gets a warning line and nothing more:
\* once the pass is past its resize loop every image of the working set has
\* been attempted, and a file whose export succeeded is counted as processed
\* and not as failed.
C9_ImageFailureConfined ==
    /\ \A i \in DOMAIN result :
          result[i] = "warning" => [kind |-> "warning", subject |-> i] \in log
    /\ (docFile # NoFile /\ pc # "resize") =>
          \A i \in DOMAIN attempts : attempts[i] >= images_to_resize[i]
    /\ \A f \in Files :
          outContent[f] = Exported(run) => [kind |-> "error", subject |-> f] \notin log
    /\ pc # "main" => processed = Cardinality({f \in Files : outContent[f] = Exported(run)})

\* one image raised, the other was resized afterwards or before, and the
\* file was exported and counted as processed
C9_Witness ==
    /\ pc = "done"
    /\ \E i \in DOMAIN result, j \in DOMAIN result :
          result[i] = "warning" /\ result[j] = "resized"
    /\ outContent[docFile] = Exported(run)
    /\ processed = Len(glb_files) /\ failed = 0

\* the line the handler at c.site prints for the exception it caught: the
\* resize loop a warning, main's loop an error, the undo handler nothing
LineOf(c) ==
    [kind |-> IF c.site = "resize" THEN "warning"
              ELSE IF c.site = "main" THEN "error" ELSE "nothing",
     subject |-> c.subject]

\* C10 as claimed: every exception caught anywhere has its log line.
C10_EveryCaughtLogged ==
    \A c \in caught : LineOf(c) \in log

\* C10 as amended: every exception caught by the resize loop or by main's
\* loop has its log line naming the image or the file; the exception raised
\* by switching global undo off is caught and dropped without a line (and
\* the one caught while validating --max_size is raised again as the fatal
\* error).
C10_LoggedExceptUndo ==
    \A c \in caught : c.site \in {"main", "resize"} => LineOf(c) \in log

C10_Witness ==
    /\ pc = "done"
    /\ \E c \in caught : c.site = "main"
    /\ \E c \in caught : c.site = "resize"
    /\ \E c \in caught : c.site = "undo"

====
